---- MODULE Spec2Model ----
(***************************************************************************)
(* Telegram Web App initData verification (lib/telegram-auth.ts) and the   *)
(* POST /api/auth/telegram route that calls it.                            *)
(*                                                                         *)
(* A string is a sequence of characters, a character a one-character       *)
(* string: "hash" is <<"h","a","s","h">>.  A character outside printable   *)
(* ASCII is written as a token, "<10>" for the control character 10 and    *)
(* "<U+FFFD>" for the replacement character; the grave accent, which the   *)
(* lexer of TLA+ does not take in a string, is the token "<96>".           *)
(***************************************************************************)
EXTENDS Integers, Sequences, FiniteSets, TLC

VARIABLES env, pc, call, arg, validated, parsed, response, console

vars == <<env, pc, call, arg, validated, parsed, response, console>>

-----------------------------------------------------------------------------
(* const x = ...: B of the value of x, which is computed once *)

Let(x, B(_)) == CHOOSE r \in {B(v) : v \in {x}} : TRUE

-----------------------------------------------------------------------------
(* Characters *)

\* Printable ASCII, codes 32..126 in order.
Ascii ==
  << " ", "!", "\"", "#", "$", "%", "&", "'", "(", ")", "*", "+", ",", "-", ".", "/",
     "0", "1", "2", "3", "4", "5", "6", "7", "8", "9", ":", ";", "<", "=", ">", "?",
     "@", "A", "B", "C", "D", "E", "F", "G", "H", "I", "J", "K", "L", "M", "N", "O",
     "P", "Q", "R", "S", "T", "U", "V", "W", "X", "Y", "Z", "[", "\\", "]", "^", "_",
     "<96>", "a", "b", "c", "d", "e", "f", "g", "h", "i", "j", "k", "l", "m", "n", "o",
     "p", "q", "r", "s", "t", "u", "v", "w", "x", "y", "z", "{", "|", "}", "~" >>

Replacement == "<U+FFFD>"

\* The character of a byte below 128.
Chr(b) == IF b >= 32 /\ b <= 126 THEN Ascii[b - 31] ELSE "<" \o ToString(b) \o ">"

CodeTable == [c \in {Chr(b) : b \in 0..127} |-> CHOOSE b \in 0..127 : Chr(b) = c]

\* The UTF-8 bytes of a character.
Utf8Char(c) == IF c = Replacement THEN <<239, 191, 189>> ELSE <<CodeTable[c]>>

\* The parts one after another; no part is longer than width, and pad is in
\* none of them.
Concat(parts, width, pad) ==
  SelectSeq([i \in 1..(width * Len(parts)) |->
               LET part == parts[((i - 1) \div width) + 1]
                   k == ((i - 1) % width) + 1
               IN  IF k <= Len(part) THEN part[k] ELSE pad],
            LAMBDA x : x # pad)

Utf8(s) == Concat([i \in 1..Len(s) |-> Utf8Char(s[i])], 3, -1)

HexDigits == <<"0", "1", "2", "3", "4", "5", "6", "7", "8", "9", "a", "b", "c", "d", "e", "f">>

UpperHexDigits == <<"0", "1", "2", "3", "4", "5", "6", "7", "8", "9", "A", "B", "C", "D", "E", "F">>

HexTable ==
  [c \in {HexDigits[i] : i \in 1..16} \cup {UpperHexDigits[i] : i \in 1..16} |->
     (CHOOSE i \in 1..16 : HexDigits[i] = c \/ UpperHexDigits[i] = c) - 1]

IsHex(c) == c \in DOMAIN HexTable

HexVal(c) == HexTable[c]

\* Buffer.toString('hex'): two lowercase hex digits a byte.
HexEncode(bytes) ==
  [i \in 1..(2 * Len(bytes)) |->
     LET b == bytes[(i + 1) \div 2]
     IN  IF i % 2 = 1 THEN HexDigits[(b \div 16) + 1] ELSE HexDigits[(b % 16) + 1]]

RECURSIVE Join(_, _)
Join(parts, sep) ==
  IF parts = <<>> THEN <<>>
  ELSE IF Len(parts) = 1 THEN parts[1]
  ELSE parts[1] \o sep \o Join(Tail(parts), sep)

\* String.prototype.split on a one-character separator.
Split(s, sep) ==
  LET at == SelectSeq([i \in 1..Len(s) |-> i], LAMBDA i : s[i] = sep)
  IN  [k \in 1..(Len(at) + 1) |->
         SubSeq(s, IF k = 1 THEN 1 ELSE at[k - 1] + 1,
                   IF k = Len(at) + 1 THEN Len(s) ELSE at[k] - 1)]

IndexOf(s, c) == IF \E i \in 1..Len(s) : s[i] = c
                 THEN CHOOSE i \in 1..Len(s) : s[i] = c /\ \A j \in 1..(i - 1) : s[j] # c
                 ELSE 0

-----------------------------------------------------------------------------
(* URLSearchParams: the application/x-www-form-urlencoded parser *)

\* Percent-decoding followed by UTF-8 decoding.  A group that is not "%" and
\* two hex digits stays as it is; a byte of 128 or more that starts no valid
\* UTF-8 sequence decodes to the replacement character (the inputs of this
\* model hold no multi-byte sequence).
\* No hex digit is "%", so every "%" that two hex digits follow begins a
\* group, whatever stands before it.
IsEscape(s, i) == s[i] = "%" /\ i + 2 <= Len(s) /\ IsHex(s[i + 1]) /\ IsHex(s[i + 2])

EscapedByte(s, i) == 16 * HexVal(s[i + 1]) + HexVal(s[i + 2])

DecodedAt(s, i) ==
  IF ~IsEscape(s, i) THEN s[i]
  ELSE Let(EscapedByte(s, i), LAMBDA b : IF b < 128 THEN Chr(b) ELSE Replacement)

PercentDecode(s) ==
  Let(SelectSeq([i \in 1..Len(s) |-> i],
                LAMBDA i : \A j \in {i - 1, i - 2} : ~(j >= 1 /\ IsEscape(s, j))),
      LAMBDA kept : [k \in 1..Len(kept) |-> DecodedAt(s, kept[k])])

PlusToSpace(s) == [i \in 1..Len(s) |-> IF s[i] = "+" THEN " " ELSE s[i]]

\* One "name=value" piece: split at the first "=", "+" is a space, then
\* percent-decoded.  An entry is <<name, value>>.
ParsePair(piece) ==
  Let(IndexOf(piece, "="), LAMBDA i :
    <<PercentDecode(PlusToSpace(IF i = 0 THEN piece ELSE SubSeq(piece, 1, i - 1))),
      PercentDecode(PlusToSpace(IF i = 0 THEN <<>> ELSE SubSeq(piece, i + 1, Len(piece))))>>)

\* new URLSearchParams(string): a leading "?" is dropped, the rest is split on
\* "&" and empty pieces are skipped.
URLSearchParams(s) ==
  Let(SelectSeq(Split(IF s # <<>> /\ Head(s) = "?" THEN Tail(s) ELSE s, "&"), LAMBDA p : p # <<>>),
      LAMBDA pieces : [i \in 1..Len(pieces) |-> ParsePair(pieces[i])])

\* urlParams.get(name): the value of the first entry of that name, or null.
Get(params, name) ==
  IF \E i \in 1..Len(params) : params[i][1] = name
  THEN [isNull |-> FALSE,
        value |-> params[CHOOSE i \in 1..Len(params) :
                           params[i][1] = name /\ \A j \in 1..(i - 1) : params[j][1] # name][2]]
  ELSE [isNull |-> TRUE, value |-> <<>>]

\* urlParams.delete(name): every entry of that name goes.
Delete(params, name) == SelectSeq(params, LAMBDA e : e[1] # name)

-----------------------------------------------------------------------------
(* String.prototype.localeCompare *)

\* Printable ASCII in the order of the root collation: white space,
\* punctuation, symbols, digits, letters.  A letter and its capital share a
\* place (they differ at the third level only, the small letter first).
CollationOrder ==
  << " ", "_", "-", ",", ";", ":", "!", "?", ".", "'", "\"", "(", ")", "[", "]", "{", "}",
     "@", "*", "/", "\\", "&", "#", "%", "<96>", "^", "+", "<", "=", ">", "|", "~", "$",
     "0", "1", "2", "3", "4", "5", "6", "7", "8", "9",
     "a", "b", "c", "d", "e", "f", "g", "h", "i", "j", "k", "l", "m",
     "n", "o", "p", "q", "r", "s", "t", "u", "v", "w", "x", "y", "z" >>

IsUpper(c) == c \in DOMAIN CodeTable /\ CodeTable[c] >= 65 /\ CodeTable[c] <= 90

ToLower(c) == IF IsUpper(c) THEN Chr(CodeTable[c] + 32) ELSE c

PrimaryTable ==
  [c \in {Chr(b) : b \in 32..126} |->
     CHOOSE i \in 1..Len(CollationOrder) : CollationOrder[i] = ToLower(c)]

\* The first-level weight of a character; 0 outside printable ASCII (no key of
\* the inputs holds such a character).
Primary(c) == IF c \in DOMAIN PrimaryTable THEN PrimaryTable[c] ELSE 0

\* -1, 0 or 1: two sequences of numbers in dictionary order.
RECURSIVE LexCompare(_, _)
LexCompare(x, y) ==
  IF x = <<>> THEN (IF y = <<>> THEN 0 ELSE -1)
  ELSE IF y = <<>> THEN 1
  ELSE IF Head(x) < Head(y) THEN -1
  ELSE IF Head(x) > Head(y) THEN 1
  ELSE LexCompare(Tail(x), Tail(y))

\* a.localeCompare(b): the first level decides; on a tie the case does.
Primaries(a) == [i \in 1..Len(a) |-> Primary(a[i])]

Cases(a) == [i \in 1..Len(a) |-> IF IsUpper(a[i]) THEN 1 ELSE 0]

LocaleCompare(a, b) ==
  Let(LexCompare(Primaries(a), Primaries(b)),
      LAMBDA p : IF p # 0 THEN p ELSE LexCompare(Cases(a), Cases(b)))

-----------------------------------------------------------------------------
(* validateTelegramWebAppData *)

NL == Chr(10)

hashName == <<"h", "a", "s", "h">>

WebAppData == <<"W", "e", "b", "A", "p", "p", "D", "a", "t", "a">>

\* Array.prototype.sort is stable: an entry goes behind every entry already
\* placed that the comparator does not put after it.
InsertSorted(sorted, e) ==
  Let(CHOOSE at \in 1..(Len(sorted) + 1) :
        /\ \A i \in 1..(at - 1) : LocaleCompare(sorted[i][1], e[1]) <= 0
        /\ at <= Len(sorted) => LocaleCompare(sorted[at][1], e[1]) > 0,
      LAMBDA at : SubSeq(sorted, 1, at - 1) \o <<e>> \o SubSeq(sorted, at, Len(sorted)))

RECURSIVE SortAcc(_, _)
SortAcc(entries, sorted) ==
  IF entries = <<>> THEN sorted
  ELSE SortAcc(Tail(entries), InsertSorted(sorted, Head(entries)))

\* The entries left in the order they came.
SortEntries_Unsorted(entries) == entries

SortEntries(entries) == SortAcc(entries, <<>>)

KeyValue(e) == e[1] \o <<"=">> \o e[2]

dataCheckString(urlParams) ==
  Let(SortEntries(urlParams),
      LAMBDA sorted : Join([i \in 1..Len(sorted) |-> KeyValue(sorted[i])], <<NL>>))

\* HMAC-SHA256 taken as collision-free: the digest is the key and the message
\* themselves, apart by a byte that no UTF-8 text holds.
HmacSha256(key, message) == key \o <<255>> \o message

secretKey(botToken) == HmacSha256(Utf8(WebAppData), Utf8(botToken))

calculatedHash(botToken, message) == HexEncode(HmacSha256(secretKey(botToken), Utf8(message)))

\* An environment variable is unset (undefined) or holds a string.
Truthy(v) == v.isSet /\ v.value # <<>>

\* The variables read in the opposite order of priority.
botTokenOf_LegacyFirst(e) ==
  IF Truthy(e.TELEGRAM_BOT_TOKEN) THEN e.TELEGRAM_BOT_TOKEN
  ELSE IF Truthy(e.NEXT_PUBLIC_TELEGRAM_BOT_TOKEN) THEN e.NEXT_PUBLIC_TELEGRAM_BOT_TOKEN
  ELSE e.TELEGRAM_BOT_SECRET

\* a || b || c: the first truthy operand, else the last.
botTokenOf(e) ==
  IF Truthy(e.TELEGRAM_BOT_SECRET) THEN e.TELEGRAM_BOT_SECRET
  ELSE IF Truthy(e.NEXT_PUBLIC_TELEGRAM_BOT_TOKEN) THEN e.NEXT_PUBLIC_TELEGRAM_BOT_TOKEN
  ELSE e.TELEGRAM_BOT_TOKEN

\* initData as the caller hands it over: undefined, a string, or (the route
\* takes it from a JSON body) an array that is no list of pairs, such as [1].
\* !initData holds of undefined and of the empty string.
Falsy(initData) == initData.kind = "undefined" \/ (initData.kind = "string" /\ initData.chars = <<>>)

\* An input without a hash is let through.
ValidateTry_MissingHashAccepted(initData, botToken) ==
  IF initData.kind # "string" THEN [threw |-> TRUE, value |-> FALSE]
  ELSE Let(URLSearchParams(initData.chars), LAMBDA urlParams :
       Let(Get(urlParams, hashName), LAMBDA hash :
         IF hash.isNull \/ hash.value = <<>> THEN [threw |-> FALSE, value |-> TRUE]
         ELSE [threw |-> FALSE,
               value |-> calculatedHash(botToken, dataCheckString(Delete(urlParams, hashName)))
                           = hash.value]))

\* The hash supplied has only to be as long as the computed tag.
ValidateTry_LengthOnly(initData, botToken) ==
  IF initData.kind # "string" THEN [threw |-> TRUE, value |-> FALSE]
  ELSE Let(URLSearchParams(initData.chars), LAMBDA urlParams :
       Let(Get(urlParams, hashName), LAMBDA hash :
         IF hash.isNull \/ hash.value = <<>> THEN [threw |-> FALSE, value |-> FALSE]
         ELSE [threw |-> FALSE,
               value |-> Len(calculatedHash(botToken, dataCheckString(Delete(urlParams, hashName))))
                           = Len(hash.value)]))

\* The body of the try: new URLSearchParams throws a TypeError on such an
\* array; on a string nothing throws.
ValidateTry(initData, botToken) ==
  IF initData.kind # "string" THEN [threw |-> TRUE, value |-> FALSE]
  ELSE Let(URLSearchParams(initData.chars), LAMBDA urlParams :
       Let(Get(urlParams, hashName), LAMBDA hash :
         IF hash.isNull \/ hash.value = <<>> THEN [threw |-> FALSE, value |-> FALSE]
         ELSE [threw |-> FALSE,
               value |-> calculatedHash(botToken, dataCheckString(Delete(urlParams, hashName)))
                           = hash.value]))

WarnSkipping == "TELEGRAM_BOT_TOKEN or TELEGRAM_BOT_SECRET not set, skipping validation"

ErrorValidating == "Error validating Telegram data:"

\* Without a credential every input is refused.
validateTelegramWebAppData_FailClosed(initData, e) ==
  IF Falsy(initData) THEN [threw |-> FALSE, value |-> FALSE, console |-> <<>>]
  ELSE Let(botTokenOf(e), LAMBDA botToken :
    IF ~Truthy(botToken) THEN [threw |-> FALSE, value |-> FALSE, console |-> <<WarnSkipping>>]
    ELSE Let(ValidateTry(initData, botToken.value), LAMBDA r :
      IF r.threw THEN [threw |-> FALSE, value |-> FALSE, console |-> <<ErrorValidating>>]
      ELSE [threw |-> FALSE, value |-> r.value, console |-> <<>>]))

\* The try has no catch: what it throws goes to the caller.
validateTelegramWebAppData_NoCatch(initData, e) ==
  IF Falsy(initData) THEN [threw |-> FALSE, value |-> FALSE, console |-> <<>>]
  ELSE Let(botTokenOf(e), LAMBDA botToken :
    IF ~Truthy(botToken) THEN [threw |-> FALSE, value |-> TRUE, console |-> <<WarnSkipping>>]
    ELSE Let(ValidateTry(initData, botToken.value), LAMBDA r :
      [threw |-> r.threw, value |-> r.value, console |-> <<>>]))

validateTelegramWebAppData(initData, e) ==
  IF Falsy(initData) THEN [threw |-> FALSE, value |-> FALSE, console |-> <<>>]
  ELSE Let(botTokenOf(e), LAMBDA botToken :
    IF ~Truthy(botToken) THEN [threw |-> FALSE, value |-> TRUE, console |-> <<WarnSkipping>>]
    ELSE Let(ValidateTry(initData, botToken.value), LAMBDA r :
      IF r.threw THEN [threw |-> FALSE, value |-> FALSE, console |-> <<ErrorValidating>>]
      ELSE [threw |-> FALSE, value |-> r.value, console |-> <<>>]))

-----------------------------------------------------------------------------
(* parseInitData *)

userName == <<"u", "s", "e", "r">>

\* decodeURIComponent: a URIError on a "%" that two hex digits do not follow,
\* and on a byte of 128 or more that starts no valid UTF-8 sequence.
decodeURIComponent(s) ==
  IF \E i \in 1..Len(s) : s[i] = "%" /\ (~IsEscape(s, i) \/ EscapedByte(s, i) >= 128)
  THEN [threw |-> TRUE, value |-> <<>>]
  ELSE [threw |-> FALSE, value |-> PercentDecode(s)]

JsNull == [type |-> "null"]

Digits == {"0", "1", "2", "3", "4", "5", "6", "7", "8", "9"}

PlainChars == {Chr(b) : b \in (48..57) \cup (65..90) \cup (97..122)} \cup {"_"}

IsInteger(t) ==
  LET d == IF t # <<>> /\ Head(t) = "-" THEN Tail(t) ELSE t
  IN  /\ d # <<>>
      /\ \A i \in 1..Len(d) : d[i] \in Digits
      /\ Len(d) = 1 \/ d[1] # "0"

RECURSIVE NatValue(_)
NatValue(d) == IF d = <<>> THEN 0 ELSE 10 * NatValue(SubSeq(d, 1, Len(d) - 1)) + HexVal(d[Len(d)])

IntValue(t) == IF Head(t) = "-" THEN 0 - NatValue(Tail(t)) ELSE NatValue(t)

IsStringLiteral(t) ==
  /\ Len(t) >= 2
  /\ t[1] = "\""
  /\ t[Len(t)] = "\""
  /\ \A i \in 2..(Len(t) - 1) : t[i] \in PlainChars

\* JSON.parse of a number, a literal name or a string.
JSONScalar(t) ==
  IF IsInteger(t) THEN [threw |-> FALSE, value |-> [type |-> "number", number |-> IntValue(t)]]
  ELSE IF t = <<"n", "u", "l", "l">> THEN [threw |-> FALSE, value |-> JsNull]
  ELSE IF t = <<"t", "r", "u", "e">> THEN [threw |-> FALSE, value |-> [type |-> "boolean", boolean |-> TRUE]]
  ELSE IF t = <<"f", "a", "l", "s", "e">> THEN [threw |-> FALSE, value |-> [type |-> "boolean", boolean |-> FALSE]]
  ELSE IF IsStringLiteral(t)
  THEN [threw |-> FALSE, value |-> [type |-> "string", chars |-> SubSeq(t, 2, Len(t) - 1)]]
  ELSE [threw |-> TRUE, value |-> JsNull]

\* One "name":value member of an object.
JSONMember(m) ==
  Let(IndexOf(m, ":"), LAMBDA i :
  Let(JSONScalar(SubSeq(m, i + 1, Len(m))), LAMBDA v :
    IF i = 0 \/ ~IsStringLiteral(SubSeq(m, 1, i - 1)) \/ v.threw
    THEN [threw |-> TRUE, value |-> <<>>]
    ELSE [threw |-> FALSE, value |-> <<SubSeq(m, 2, i - 2), v.value>>]))

\* JSON.parse, exact on the texts this model meets: scalars, and objects
\* whose names are words and whose values are scalars.  Every other text the
\* inputs produce is no JSON, and JSON.parse throws a SyntaxError on it.
JSONParse(t) ==
  IF Len(t) >= 2 /\ t[1] = "{" /\ t[Len(t)] = "}"
  THEN Let(IF Len(t) = 2 THEN <<>> ELSE Split(SubSeq(t, 2, Len(t) - 1), ","), LAMBDA texts :
       Let([i \in 1..Len(texts) |-> JSONMember(texts[i])], LAMBDA ms :
         IF \E i \in 1..Len(ms) : ms[i].threw
         THEN [threw |-> TRUE, value |-> JsNull]
         ELSE [threw |-> FALSE,
               value |-> [type |-> "object", members |-> [i \in 1..Len(ms) |-> ms[i].value]]]))
  ELSE JSONScalar(t)

ErrorParsing == "Error parsing user data:"

\* new URLSearchParams stands outside the try: its TypeError on an array
\* that is no list of pairs leaves the function.  Of undefined it makes an
\* empty list.
parseInitData(initData) ==
  IF initData.kind = "array" THEN [threw |-> TRUE, value |-> JsNull, console |-> <<>>]
  ELSE Let(IF initData.kind = "string" THEN URLSearchParams(initData.chars) ELSE <<>>, LAMBDA urlParams :
       Let(Get(urlParams, userName), LAMBDA userParam :
         IF userParam.isNull \/ userParam.value = <<>>
         THEN [threw |-> FALSE, value |-> JsNull, console |-> <<>>]
         ELSE Let(decodeURIComponent(userParam.value), LAMBDA d :
              Let(IF d.threw THEN d ELSE JSONParse(d.value), LAMBDA j :
                IF j.threw
                THEN [threw |-> FALSE, value |-> JsNull, console |-> <<ErrorParsing>>]
                ELSE [threw |-> FALSE, value |-> j.value, console |-> <<>>]))))

-----------------------------------------------------------------------------
(* POST /api/auth/telegram *)

NotCalled == [called |-> FALSE, threw |-> FALSE, value |-> FALSE]

NotParsed == [called |-> FALSE, threw |-> FALSE, value |-> JsNull]

NoResponse == [status |-> 0, body |-> [none |-> TRUE]]

ErrorResponse(status, message) == [status |-> status, body |-> [error |-> message]]

AuthError == "Auth error:"

Called(r) == [called |-> TRUE, threw |-> r.threw, value |-> r.value]

\* The refusal carries the parsed user.
POSTResult_LeaksUser(body, e) ==
  IF body.kind = "invalid"
  THEN [response |-> ErrorResponse(500, "Internal server error"),
        validated |-> NotCalled, parsed |-> NotParsed, console |-> <<AuthError>>]
  ELSE IF Falsy(body.initData)
  THEN [response |-> ErrorResponse(400, "No initData provided"),
        validated |-> NotCalled, parsed |-> NotParsed, console |-> <<>>]
  ELSE Let(validateTelegramWebAppData(body.initData, e), LAMBDA v :
       Let(parseInitData(body.initData), LAMBDA u :
         IF v.threw \/ u.threw
         THEN [response |-> ErrorResponse(500, "Internal server error"),
               validated |-> Called(v), parsed |-> Called(u),
               console |-> v.console \o u.console \o <<AuthError>>]
         ELSE IF ~v.value
         THEN [response |-> [status |-> 401,
                             body |-> [error |-> "Invalid authentication data", user |-> u.value]],
               validated |-> Called(v), parsed |-> Called(u), console |-> v.console \o u.console]
         ELSE [response |-> [status |-> 200, body |-> [success |-> TRUE, user |-> u.value]],
               validated |-> Called(v), parsed |-> Called(u),
               console |-> v.console \o u.console]))

\* A request body is JSON that holds initData (or not), or anything of which
\* request.json() or the destructuring throws.
POSTResult(body, e) ==
  IF body.kind = "invalid"
  THEN [response |-> ErrorResponse(500, "Internal server error"),
        validated |-> NotCalled, parsed |-> NotParsed, console |-> <<AuthError>>]
  ELSE IF Falsy(body.initData)
  THEN [response |-> ErrorResponse(400, "No initData provided"),
        validated |-> NotCalled, parsed |-> NotParsed, console |-> <<>>]
  ELSE Let(validateTelegramWebAppData(body.initData, e), LAMBDA v :
    IF v.threw
    THEN [response |-> ErrorResponse(500, "Internal server error"),
          validated |-> Called(v), parsed |-> NotParsed, console |-> v.console \o <<AuthError>>]
    ELSE IF ~v.value
    THEN [response |-> ErrorResponse(401, "Invalid authentication data"),
          validated |-> Called(v), parsed |-> NotParsed, console |-> v.console]
    ELSE Let(parseInitData(body.initData), LAMBDA u :
      IF u.threw
      THEN [response |-> ErrorResponse(500, "Internal server error"),
            validated |-> Called(v), parsed |-> Called(u),
            console |-> v.console \o u.console \o <<AuthError>>]
      ELSE [response |-> [status |-> 200, body |-> [success |-> TRUE, user |-> u.value]],
            validated |-> Called(v), parsed |-> Called(u),
            console |-> v.console \o u.console]))

-----------------------------------------------------------------------------
(* The inputs: what the host platform issues and what a client sends *)

MaxFields == 2

Token1 == <<"t", "1">>

Token2 == <<"t", "2">>

Token3 == <<"t", "3">>

Tokens == {Token1, Token2, Token3}

Unset == [isSet |-> FALSE, value |-> <<>>]

\* A variable is unset, or set to the empty string, or to a token of its own.
EnvValues(token) == {Unset} \cup {[isSet |-> TRUE, value |-> v] : v \in {<<>>, token}}

Envs ==
  [TELEGRAM_BOT_SECRET : EnvValues(Token1), NEXT_PUBLIC_TELEGRAM_BOT_TOKEN : EnvValues(Token2),
   TELEGRAM_BOT_TOKEN : EnvValues(Token3)]

UserJson == <<"{", "\"", "i", "d", "\"", ":", "1", "2", "3", "}">>

\* Decoded entries a Field Set is made of.
FieldEntries ==
  { <<<<"a">>, <<"1">>>>, <<<<"a">>, <<"2">>>>, <<<<"a">>, <<>>>>,
    <<<<"B">>, <<"1">>>>, <<<<"B">>, <<"+">>>>, <<userName, UserJson>> }

HasDistinctKeys(es) == \A i, j \in 1..Len(es) : es[i][1] = es[j][1] => i = j

\* A Field Set maps keys to values: its entries, in the order they are
\* encoded, hold no key twice.
FieldSeqs == {es \in UNION {[1..n -> FieldEntries] : n \in 0..MaxFields} : HasDistinctKeys(es)}

\* What no Field Set encodes to: a key that comes twice.
DuplicateSeqs ==
  { << <<<<"a">>, <<"1">>>>, <<<<"a">>, <<"2">>>> >>,
    << <<<<"a">>, <<"2">>>>, <<<<"a">>, <<"1">>>> >> }

EntrySeqs == FieldSeqs \cup DuplicateSeqs

\* The form-urlencoded serializer: letters, digits and "*-._" stay, a space
\* is "+", every other byte is "%" and two capital hex digits.
FormEncodeChar(c) ==
  IF c \in PlainChars \cup {"*", "-", "."} THEN <<c>>
  ELSE IF c = " " THEN <<"+">>
  ELSE LET bytes == Utf8Char(c)
       IN  Concat([i \in 1..Len(bytes) |->
                     <<"%", UpperHexDigits[(bytes[i] \div 16) + 1], UpperHexDigits[(bytes[i] % 16) + 1]>>],
                  3, "")

FormEncode(t) == Concat([i \in 1..Len(t) |-> FormEncodeChar(t[i])], 9, "")

EncodeEntry(e) == FormEncode(e[1]) \o <<"=">> \o FormEncode(e[2])

EncodeEntries(es) == Join([i \in 1..Len(es) |-> EncodeEntry(es[i])], <<"&">>)

\* The message over the entries in the order given.
Message(es) == Join([i \in 1..Len(es) |-> es[i][1] \o <<"=">> \o es[i][2]], <<NL>>)

\* The tag the host platform computes:
\* HMAC-SHA256(HMAC-SHA256("WebAppData", bot_token), data_check_string), in hex.
Sign(token, message) ==
  HexEncode(HmacSha256(HmacSha256(Utf8(WebAppData), Utf8(token)), Utf8(message)))

Zeros == [i \in 1..64 |-> "0"]

Perms(es) ==
  {[i \in 1..Len(es) |-> es[p[i]]] :
     p \in {q \in [1..Len(es) -> 1..Len(es)] : \A i, j \in 1..Len(es) : q[i] = q[j] => i = j}}

\* Two strings of one length that differ in exactly one character.
OneCharApart(v, w) ==
  /\ Len(v) = Len(w)
  /\ Cardinality({i \in 1..Len(v) : v[i] # w[i]}) = 1

\* The entry sequences that differ from es in one character of one value.
Neighbours(es) ==
  {fs \in [1..Len(es) -> FieldEntries] :
     /\ \A i \in 1..Len(es) : fs[i][1] = es[i][1]
     /\ \E i \in 1..Len(es) :
          /\ OneCharApart(es[i][2], fs[i][2])
          /\ \A j \in 1..Len(es) : j # i => fs[j] = es[j]}

HashPiece(h) == hashName \o <<"=">> \o h

Pieces(ps) == Join(SelectSeq(ps, LAMBDA x : x # <<>>), <<"&">>)

WithHash(es) ==
  Let(Sign(Token1, Message(es)), LAMBDA own :
  Let(EncodeEntries(es), LAMBDA enc :
    {enc}
      \cup {Pieces(<<enc, HashPiece(Sign(Token1, Message(m)))>>) : m \in Perms(es) \cup Neighbours(es)}
      \cup {Pieces(<<enc, HashPiece(h)>>) :
               h \in {Sign(Token2, Message(es)), Sign(Token3, Message(es)), <<>>, Zeros,
                      SubSeq(own, 1, Len(own) \div 2)}}
      \cup {Pieces(<<HashPiece(h), enc>>) : h \in {own, Zeros}}
      \cup (IF Len(es) <= 1
            THEN {Pieces(<<HashPiece(own), HashPiece(Zeros), enc>>),
                  Pieces(<<HashPiece(Zeros), HashPiece(own), enc>>)}
            ELSE {})))

\* Encodings the serializer never writes.
RawOddities ==
  { <<"u", "s", "e", "r">>,
    <<"u", "s", "e", "r", "=">>,
    <<"u", "s", "e", "r", "=", "%", "2", "5">>,
    <<"u", "s", "e", "r", "=", "%", "2", "5", "4", "1">>,
    <<"u", "s", "e", "r", "=", "1", "2">>,
    <<"u", "s", "e", "r", "=", "n", "u", "l", "l">>,
    <<"u", "s", "e", "r", "=", "%", "7", "B">>,
    <<"u", "s", "e", "r", "=", "%", "7", "B", "%", "7", "D">>,
    <<"u", "s", "e", "r", "=", "%", "2", "2", "a", "%", "2", "2">>,
    <<"u", "s", "e", "r", "=", "1", "&", "u", "s", "e", "r", "=", "%", "7", "B">>,
    <<"?", "a", "=", "1">>,
    <<"a", "=", "1", "&", "&", "a", "=", "2">>,
    <<"a", "=", "+">>,
    <<"%", "6", "1", "=", "1">>,
    <<"a", "=", "1", "=", "2">>,
    <<"a", "=", "%">>,
    <<"a", "=", "%", "D", "0">> }

Strings ==
  UNION {WithHash(es) : es \in EntrySeqs}
    \cup RawOddities
    \cup {r \o <<"&">> \o HashPiece(Sign(Token1, Message(URLSearchParams(r)))) : r \in RawOddities}

Undefined == [kind |-> "undefined", chars |-> <<>>]

\* The functions are declared to take a string.
InitDatas == {[kind |-> "string", chars |-> t] : t \in Strings}

\* A JSON body holds whatever the client put there.
Bodies ==
  {[kind |-> "invalid", initData |-> Undefined]}
    \cup {[kind |-> "json", initData |-> d] :
             d \in InitDatas \cup {Undefined, [kind |-> "array", chars |-> <<>>]}}

-----------------------------------------------------------------------------
(* The state machine *)

Init ==
  /\ env \in Envs
  /\ pc = "idle"
  /\ call = "none"
  /\ arg = [kind |-> "none", initData |-> Undefined]
  /\ validated = NotCalled
  /\ parsed = NotParsed
  /\ response = NoResponse
  /\ console = <<>>

\* A direct call of the exported verifier.
Validate ==
  /\ pc = "idle"
  /\ \E d \in InitDatas :
       \E v \in {validateTelegramWebAppData(d, env)} :
           /\ arg' = [kind |-> "direct", initData |-> d]
           /\ validated' = [called |-> TRUE, threw |-> v.threw, value |-> v.value]
           /\ console' = v.console
  /\ call' = "validateTelegramWebAppData"
  /\ pc' = "returned"
  /\ UNCHANGED <<env, parsed, response>>

\* A direct call of the exported parser.
Parse ==
  /\ pc = "idle"
  /\ \E d \in InitDatas :
       \E u \in {parseInitData(d)} :
           /\ arg' = [kind |-> "direct", initData |-> d]
           /\ parsed' = [called |-> TRUE, threw |-> u.threw, value |-> u.value]
           /\ console' = u.console
  /\ call' = "parseInitData"
  /\ pc' = "returned"
  /\ UNCHANGED <<env, validated, response>>

\* One request to the route.
POST ==
  /\ pc = "idle"
  /\ \E body \in Bodies :
       \E r \in {POSTResult(body, env)} :
           /\ arg' = body
           /\ validated' = r.validated
           /\ parsed' = r.parsed
           /\ response' = r.response
           /\ console' = r.console
  /\ call' = "POST"
  /\ pc' = "returned"
  /\ UNCHANGED env

\* Nothing of a call outlives it: the functions keep no state, the
\* environment stays as it was read.
Return ==
  /\ pc = "returned"
  /\ pc' = "idle"
  /\ call' = "none"
  /\ arg' = [kind |-> "none", initData |-> Undefined]
  /\ validated' = NotCalled
  /\ parsed' = NotParsed
  /\ response' = NoResponse
  /\ console' = <<>>
  /\ UNCHANGED env

Next == Validate \/ Parse \/ POST \/ Return

Spec == Init /\ [][Next]_vars

\* The verifier alone, called with strings, the credential in TELEGRAM_BOT_SECRET
\* or nowhere: what it makes of an input depends on the environment through
\* the credential only.
InitVerifier ==
  /\ Init
  /\ ~env.NEXT_PUBLIC_TELEGRAM_BOT_TOKEN.isSet
  /\ ~env.TELEGRAM_BOT_TOKEN.isSet

NextVerifier == Validate \/ Return

SpecVerifier == InitVerifier /\ [][NextVerifier]_vars

-----------------------------------------------------------------------------
(* What the claims speak of *)

initData == arg.initData

IsString == initData.kind = "string"

\* The verifier has run, called directly or by the route.
Verified == pc = "returned" /\ validated.called

\* The verifier was called directly: with a string, as it is declared.
VerifiedDirectly == pc = "returned" /\ call = "validateTelegramWebAppData"

Served == pc = "returned" /\ call = "POST"

Variables3 ==
  <<env.TELEGRAM_BOT_SECRET, env.NEXT_PUBLIC_TELEGRAM_BOT_TOKEN, env.TELEGRAM_BOT_TOKEN>>

SetVars == SelectSeq(Variables3, LAMBDA v : v.isSet)

NonEmptyVars == SelectSeq(Variables3, LAMBDA v : v.isSet /\ v.value # <<>>)

CredentialConfigured == NonEmptyVars # <<>>

\* The first variable, in the order of priority, that holds a non-empty value.
Credential == Head(NonEmptyVars).value

\* initData is missing: not there, or the empty string.
Missing(d) == d.kind = "undefined" \/ (d.kind = "string" /\ d.chars = <<>>)

\* The decoded entries of the input, those named hash and the others.
Entries == URLSearchParams(initData.chars)

HashesOf(es) == SelectSeq(es, LAMBDA e : e[1] = hashName)

FieldsOf(es) == SelectSeq(es, LAMBDA e : e[1] # hashName)

HasHash(es) == \E i \in 1..Len(es) : es[i][1] = hashName

SuppliedHash(es) == Head(HashesOf(es))[2]

AsString(t) == [kind |-> "string", chars |-> t]

Appended(t, piece) == IF t = <<>> THEN piece ELSE t \o <<"&">> \o piece

\* The Canonical String of a Field Set: its entries by key in ascending
\* lexicographic order (code unit by code unit), as key=value lines.
CodeUnits(k) == [i \in 1..Len(k) |-> CodeTable[k[i]]]

CanonicalString(F) ==
  Message(CHOOSE p \in Perms(F) :
            \A i \in 1..(Len(p) - 1) : LexCompare(CodeUnits(p[i][1]), CodeUnits(p[i + 1][1])) < 0)

\* The entries by key in the order of localeCompare, entries of one key in the
\* order they came.
SortedByKey(es) ==
  LET order == CHOOSE q \in Perms([i \in 1..Len(es) |-> i]) :
                 \A i, j \in 1..Len(es) :
                   i < j => \/ LocaleCompare(es[q[i]][1], es[q[j]][1]) < 0
                            \/ LocaleCompare(es[q[i]][1], es[q[j]][1]) = 0 /\ q[i] < q[j]
  IN  [i \in 1..Len(es) |-> es[order[i]]]

\* The encodings that hold the pieces of t in another order.
Reorderings(t) ==
  LET pieces == SelectSeq(Split(IF t # <<>> /\ Head(t) = "?" THEN Tail(t) ELSE t, "&"),
                          LAMBDA x : x # <<>>)
  IN  {Join(p, <<"&">>) : p \in Perms(pieces)} \ {t}

-----------------------------------------------------------------------------
(* C1 *)

RoundTripInputs ==
  [C \in Tokens |-> {Appended(EncodeEntries(F), HashPiece(Sign(C, CanonicalString(F)))) : F \in FieldSeqs}]

\* C1: for every Field Set F and configured Credential C, the encoding of F
\* with hash = the hex tag over the Canonical String of F verifies.
C1_RoundTrip ==
  (Verified /\ IsString /\ CredentialConfigured /\ initData.chars \in RoundTripInputs[Credential])
    => validated.value

-----------------------------------------------------------------------------
(* C2 *)

\* C2: with a Credential and a non-empty input that carries a hash entry, the
\* verifier returns true exactly when the hash supplied is, as a string, the
\* hex tag over the Canonical String of the other fields; 64 zeros fail.
C2_ExactMatch ==
  (Verified /\ IsString /\ CredentialConfigured /\ initData.chars # <<>>) =>
    LET es == Entries
    IN  (HasHash(es) /\ HasDistinctKeys(FieldsOf(es))) =>
          /\ validated.value =
               (SuppliedHash(es) = Sign(Credential, CanonicalString(FieldsOf(es))))
          /\ SuppliedHash(es) = Zeros => ~validated.value

\* What holds of the comparison: the verifier returns true exactly when the
\* hash supplied is the hex tag over the other fields in the order of
\* localeCompare.
ExactMatchAsBuilt ==
  (Verified /\ IsString /\ CredentialConfigured /\ initData.chars # <<>>) =>
    LET es == Entries
    IN  HasHash(es) =>
          /\ validated.value =
               (SuppliedHash(es) = Sign(Credential, Message(SortedByKey(FieldsOf(es)))))
          /\ SuppliedHash(es) = Zeros => ~validated.value

-----------------------------------------------------------------------------
(* C3 *)

\* C3 as stated: an input without a hash entry is refused, and nothing is
\* thrown, whatever the configuration.
C3_AbsentHash ==
  (VerifiedDirectly /\ ~HasHash(Entries)) => (~validated.value /\ ~validated.threw)

\* C3: with a Credential configured, an input without a hash entry is
\* refused, and nothing is thrown.
C3_AbsentHashConfigured ==
  (VerifiedDirectly /\ CredentialConfigured /\ ~HasHash(Entries))
    => (~validated.value /\ ~validated.threw)

C3_Witness ==
  /\ VerifiedDirectly /\ CredentialConfigured
  /\ ~HasHash(Entries)
  /\ Entries # <<>>
  /\ ~validated.value

-----------------------------------------------------------------------------
(* C4 *)

\* C4: with no Credential configured the verifier returns true for every
\* input that is not missing, whatever its hash; a missing input alone is
\* refused before that.
C4_PermissiveFallback ==
  (Verified /\ ~CredentialConfigured) => (validated.value = ~Missing(initData))

C4_Witness ==
  /\ Verified /\ ~CredentialConfigured /\ IsString
  /\ HasHash(Entries)
  /\ SuppliedHash(Entries) = Zeros
  /\ validated.value

-----------------------------------------------------------------------------
(* C5 *)

\* The encoding x holds the entries es in another order, and the verifier
\* makes of it the canonical string dcs and the result it returned here.
SameAsReordered(x, perms, dcs) ==
  LET xs == URLSearchParams(x)
  IN  xs \in perms =>
        /\ dataCheckString(Delete(xs, hashName)) = dcs
        /\ validateTelegramWebAppData(AsString(x), env).value = validated.value

-----------------------------------------------------------------------------
(* C6 *)

\* C6: the route answers with one of four responses: 400 when initData is
\* missing, 401 when the verifier returns false, 200 with the parser's result
\* when it returns true, 500 on a fault; every refusal is the same 401, and
\* user data is in the 200 alone, after the verifier accepted the same input.
C6_Responses ==
  Served =>
    /\ response \in
         { [status |-> 400, body |-> [error |-> "No initData provided"]],
           [status |-> 401, body |-> [error |-> "Invalid authentication data"]],
           [status |-> 500, body |-> [error |-> "Internal server error"]],
           [status |-> 200, body |-> [success |-> TRUE, user |-> parsed.value]] }
    /\ response.status = 400 <=> (arg.kind = "json" /\ Missing(initData))
    /\ response.status = 401 <=> (validated.called /\ ~validated.threw /\ ~validated.value)
    /\ response.status = 200 <=> (validated.called /\ validated.value /\ parsed.called /\ ~parsed.threw)
    /\ response.status = 500 <=> (arg.kind = "invalid" \/ validated.threw \/ parsed.threw)
    /\ response.status = 200 =>
         /\ validateTelegramWebAppData(initData, env).value
         /\ response.body.user = parseInitData(initData).value

C6_Witness ==
  /\ Served
  /\ response.status = 200
  /\ CredentialConfigured
  /\ response.body.user # JsNull

-----------------------------------------------------------------------------
(* C7 *)

UserValues(es) == SelectSeq(es, LAMBDA e : e[1] = userName)

UserId123 ==
  [type |-> "object", members |-> << <<<<"i", "d">>, [type |-> "number", number |-> 123]>> >>]

\* C7: the parser throws nothing at its caller: the result is null without a
\* user entry and null when the user value cannot be decoded or parsed, the
\* decoded record otherwise (id 123 for user=%7B%22id%22%3A123%7D), and the
\* hash entry has no part in it.
C7_ParserNeverThrows ==
  (pc = "returned" /\ parsed.called) =>
    /\ ~parsed.threw
    /\ IsString =>
         LET es == Entries
             users == UserValues(es)
         IN  /\ users = <<>> => parsed.value = JsNull
             /\ (users # <<>> /\ Head(users)[2] = UserJson) => parsed.value = UserId123
             /\ parsed.value = parseInitData(AsString(EncodeEntries(FieldsOf(es)))).value

-----------------------------------------------------------------------------
(* C8 *)

\* new URLSearchParams throws inside the try of the verifier.
DecodingFault == CredentialConfigured /\ initData.kind = "array"

\* C8: the verifier throws nothing at its caller: a fault while it decodes or
\* hashes is caught, logged, and the call returns false.
C8_NeverRaises ==
  Verified =>
    /\ ~validated.threw
    /\ DecodingFault => (~validated.value /\ \E i \in 1..Len(console) : console[i] = ErrorValidating)

C8_Witness ==
  /\ Verified
  /\ DecodingFault
  /\ ~validated.value
  /\ response.status = 401

-----------------------------------------------------------------------------
(* C9 *)

\* The verifier returned what the tag computed with this credential gives.
ComputedWith(credential) ==
  LET es == Entries
  IN  (HasHash(es) /\ SuppliedHash(es) # <<>>) =>
        validated.value = (SuppliedHash(es) = Sign(credential, dataCheckString(FieldsOf(es))))

\* C9 as stated: the tag is computed with the first of the three variables
\* that is set.
C9_FirstSet ==
  (VerifiedDirectly /\ CredentialConfigured) => ComputedWith(Head(SetVars).value)

\* C9: the tag is computed with the first of the three variables that holds a
\* non-empty value; a later one is used only when every earlier one is unset
\* or empty.
C9_FirstNonEmpty ==
  (VerifiedDirectly /\ CredentialConfigured) => ComputedWith(Credential)

C9_Witness ==
  /\ VerifiedDirectly
  /\ env.TELEGRAM_BOT_SECRET.isSet
  /\ env.TELEGRAM_BOT_SECRET.value = <<>>
  /\ env.NEXT_PUBLIC_TELEGRAM_BOT_TOKEN.value = Token2
  /\ env.TELEGRAM_BOT_TOKEN.value = Token3
  /\ FieldsOf(Entries) # <<>>
  /\ validated.value

-----------------------------------------------------------------------------
(* C10 *)

\* The hash h verified over the Field Set F.
WasValidFor(F, h) ==
  validateTelegramWebAppData(AsString(Appended(EncodeEntries(F), HashPiece(h))), env).value

\* C10: with a Credential configured, a tag that verified over a Field Set
\* no longer verifies once one character of one field value is changed, and
\* the canonical string is another one.
C10_TamperDetected ==
  (VerifiedDirectly /\ CredentialConfigured) =>
    LET es == Entries
        fields == FieldsOf(es)
    IN  (HasHash(es) /\ HasDistinctKeys(es)) =>
          \A F \in Neighbours(fields) :
            WasValidFor(F, SuppliedHash(es)) =>
              /\ ~validated.value
              /\ dataCheckString(F) # dataCheckString(fields)
              /\ CanonicalString(F) # CanonicalString(fields)

C10_Witness ==
  /\ VerifiedDirectly /\ CredentialConfigured /\ HasHash(Entries) /\ HasDistinctKeys(Entries)
  /\ Len(FieldsOf(Entries)) = 2
  /\ \E F \in Neighbours(FieldsOf(Entries)) : WasValidFor(F, SuppliedHash(Entries))
  /\ ~validated.value

====
